---- MODULE Spec2Model ----
(***************************************************************************)
(* Model of packages/core/src/models: the ModelRegistry (a catalog of      *)
(* resolved model definitions per authType, with a reverse index) and the  *)
(* ModelSelectionManager (current authType / model id / source /           *)
(* timestamp, and the asynchronous switchModel with rollback).             *)
(*                                                                         *)
(* JavaScript values: a missing object field is a field that is not in the *)
(* DOMAIN of the record; a missing string argument is the value Undefined. *)
(* A Map is a sequence of entries in insertion order with distinct keys.   *)
(***************************************************************************)
EXTENDS Integers, Sequences, FiniteSets, TLC

\* ------------------------------------------------------------------ values

\* The value of a string-typed option or variable that was not supplied.
Undefined == "<undefined>"

\* JavaScript truthiness of a string-or-undefined value (x || y, !x, x && y).
Truthy(x) == x # Undefined /\ x # ""

\* The result of a lookup that found nothing (Map.get -> undefined).
NotFound == [undefined |-> TRUE]

\* AuthType enum values used by the registry, the manager and their tests.
QWEN_OAUTH == "qwen-oauth"
USE_OPENAI == "openai"
USE_GEMINI == "gemini-api-key"
USE_VERTEX_AI == "vertex-ai"

AuthTypes == {QWEN_OAUTH, USE_OPENAI, USE_GEMINI, USE_VERTEX_AI}

\* SelectionSource enum.
DEFAULT == "default"
ENVIRONMENT == "environment"
SETTINGS == "settings"
PROGRAMMATIC_OVERRIDE == "programmatic_override"
USER_MANUAL == "user_manual"

SelectionSource == {DEFAULT, ENVIRONMENT, SETTINGS, PROGRAMMATIC_OVERRIDE, USER_MANUAL}

\* DEFAULT_GENERATION_CONFIG; temperature and top_p are kept in tenths.
DEFAULT_GENERATION_CONFIG ==
    [temperature |-> 7, top_p |-> 9, max_tokens |-> 4096, timeout |-> 60000,
     maxRetries |-> 3]

\* A table of default base URLs without an entry for any authType.
DefaultBaseUrlNone(authType) == ""

\* DEFAULT_BASE_URLS[authType] || ''
DefaultBaseUrl(authType) ==
    CASE authType = QWEN_OAUTH -> "https://dashscope.aliyuncs.com/compatible-mode/v1"
      [] authType = USE_OPENAI -> "https://api.openai.com/v1"
      [] OTHER -> ""

\* The named default model of the qwen-oauth authType.
DEFAULT_QWEN_MODEL == "coder-model"

\* The hard-coded qwen-oauth catalog.
QWEN_OAUTH_MODELS ==
    << [id |-> "coder-model", name |-> "Qwen Coder",
        description |-> "The latest Qwen Coder model",
        capabilities |-> [vision |-> FALSE],
        generationConfig |-> [temperature |-> 7, top_p |-> 9, max_tokens |-> 8192,
                              timeout |-> 60000, maxRetries |-> 3]],
       [id |-> "vision-model", name |-> "Qwen Vision",
        description |-> "The latest Qwen Vision model",
        capabilities |-> [vision |-> TRUE],
        generationConfig |-> [temperature |-> 7, top_p |-> 9, max_tokens |-> 8192,
                              timeout |-> 60000, maxRetries |-> 3]] >>

\* ---------------------------------------------------------------- registry

Has(config, field) == field \in DOMAIN config

\* A validation that rejects a missing id only, not an empty one.
ValidateThrowsOnMissingOnly(config) == ~Has(config, "id")

\* validateModelConfig: TRUE when it throws (!config.id).
ValidateThrows(config) == ~Has(config, "id") \/ ~Truthy(config.id)

\* A merge that keeps the model's own fields only.
mergeGenerationConfigWithoutDefaults(config) == config

\* mergeGenerationConfig: { ...DEFAULT_GENERATION_CONFIG, ...config }.
mergeGenerationConfig(config) ==
    [f \in DOMAIN DEFAULT_GENERATION_CONFIG \cup DOMAIN config |->
        IF f \in DOMAIN config THEN config[f] ELSE DEFAULT_GENERATION_CONFIG[f]]

\* resolveModelConfig, for a config that passed validation.
resolveModelConfig(config, authType) ==
    [f \in DOMAIN config \cup {"authType", "name", "baseUrl", "generationConfig",
                               "capabilities"} |->
        CASE f = "authType" -> authType
          [] f = "name" ->
                IF Has(config, "name") /\ Truthy(config.name) THEN config.name
                ELSE config.id
          [] f = "baseUrl" ->
                IF Has(config, "baseUrl") /\ Truthy(config.baseUrl) THEN config.baseUrl
                ELSE DefaultBaseUrl(authType)
          [] f = "generationConfig" ->
                IF Has(config, "generationConfig")
                THEN mergeGenerationConfig(config.generationConfig)
                ELSE DEFAULT_GENERATION_CONFIG
          [] f = "capabilities" ->
                IF Has(config, "capabilities") THEN config.capabilities
                ELSE [x \in {} |-> TRUE]
          [] OTHER -> config[f]]

\* Position of key k in a Map (sequence of entries with field key), 0 if absent.
MapIndex(map, k) ==
    IF \E i \in 1..Len(map) : map[i].key = k
    THEN CHOOSE i \in 1..Len(map) : map[i].key = k
    ELSE 0

MapHas(map, k) == MapIndex(map, k) # 0

\* Map.set: replaces the value in place when the key exists, appends otherwise.
MapSet(map, k, v) ==
    IF MapHas(map, k)
    THEN [map EXCEPT ![MapIndex(map, k)] = [key |-> k, value |-> v]]
    ELSE Append(map, [key |-> k, value |-> v])

\* The empty registry of the constructor, before anything is registered.
EmptyRegistry ==
    [threw |-> FALSE, errorAuthType |-> Undefined,
     modelsByAuthType |-> << >>, modelIdToAuthTypes |-> << >>]

\* The loop body of registerAuthTypeModels for models[i..]: modelMap is the
\* local map being filled, reg the registry whose reverse index is updated.
\* A validation error aborts the whole construction.
RECURSIVE RegisterLoop(_, _, _, _, _)
RegisterLoop(reg, authType, models, i, modelMap) ==
    IF i > Len(models)
    THEN [reg EXCEPT !.modelsByAuthType = MapSet(@, authType, modelMap)]
    ELSE IF ValidateThrows(models[i])
    THEN [EmptyRegistry EXCEPT !.threw = TRUE, !.errorAuthType = authType]
    ELSE LET config == models[i]
             resolved == resolveModelConfig(config, authType)
             existingAuthTypes ==
                 IF MapHas(reg.modelIdToAuthTypes, config.id)
                 THEN reg.modelIdToAuthTypes[MapIndex(reg.modelIdToAuthTypes, config.id)].value
                 ELSE << >>
             reg2 == [reg EXCEPT !.modelIdToAuthTypes =
                         MapSet(@, config.id, Append(existingAuthTypes, authType))]
         IN  RegisterLoop(reg2, authType, models, i + 1,
                          MapSet(modelMap, config.id, resolved))

registerAuthTypeModels(reg, authType, models) ==
    RegisterLoop(reg, authType, models, 1, << >>)

\* A constructor loop that registers the user's qwen-oauth list as well.
RECURSIVE RegisterCatalogNoSkip(_, _, _)
RegisterCatalogNoSkip(reg, catalog, i) ==
    IF reg.threw \/ i > Len(catalog) THEN reg
    ELSE RegisterCatalogNoSkip(
             registerAuthTypeModels(reg, catalog[i].authType, catalog[i].models),
             catalog, i + 1)

\* The loop of the constructor over Object.entries(modelProvidersConfig):
\* a catalog is a sequence of [authType, models] entries with distinct keys.
RECURSIVE RegisterCatalog(_, _, _)
RegisterCatalog(reg, catalog, i) ==
    IF reg.threw \/ i > Len(catalog) THEN reg
    ELSE IF catalog[i].authType = QWEN_OAUTH
    THEN RegisterCatalog(reg, catalog, i + 1)
    ELSE RegisterCatalog(registerAuthTypeModels(reg, catalog[i].authType, catalog[i].models),
                         catalog, i + 1)

\* new ModelRegistry(modelProvidersConfig); the catalog << >> stands for both
\* an undefined and an empty configuration object.
ModelRegistry(catalog) ==
    RegisterCatalog(registerAuthTypeModels(EmptyRegistry, QWEN_OAUTH, QWEN_OAUTH_MODELS),
                    catalog, 1)

\* this.modelsByAuthType.get(authType), << >> standing for an absent entry.
ModelsOf(reg, authType) ==
    IF MapHas(reg.modelsByAuthType, authType)
    THEN reg.modelsByAuthType[MapIndex(reg.modelsByAuthType, authType)].value
    ELSE << >>

getModel(reg, authType, modelId) ==
    LET models == ModelsOf(reg, authType)
    IN  IF MapHas(models, modelId) THEN models[MapIndex(models, modelId)].value
        ELSE NotFound

\* A check that looks the identifier up under every authType.
hasModelUnderAnyAuthType(reg, authType, modelId) ==
    MapHas(reg.modelIdToAuthTypes, modelId)

hasModel(reg, authType, modelId) == MapHas(ModelsOf(reg, authType), modelId)

\* A default that takes the last value of the Map instead of the first.
getLastModelForAuthType(reg, authType) ==
    LET models == ModelsOf(reg, authType)
    IN  IF Len(models) = 0 THEN NotFound ELSE models[Len(models)].value

getFirstModelForAuthType(reg, authType) ==
    LET models == ModelsOf(reg, authType)
    IN  IF Len(models) = 0 THEN NotFound ELSE models[1].value

getDefaultModelForAuthType(reg, authType) ==
    IF authType = QWEN_OAUTH THEN getModel(reg, authType, DEFAULT_QWEN_MODEL)
    ELSE getFirstModelForAuthType(reg, authType)

\* ------------------------------------------------------------------ bounds

\* Date.now() ranges over 0..MaxClock.
MaxClock == 1

\* The switchModel calls that can overlap: a call is made only while fewer
\* than these are suspended at their await.
Calls == {"call1", "call2"}

\* Catalog entries of the manager's test configuration.
Gpt4Turbo ==
    [id |-> "gpt-4-turbo", name |-> "GPT-4 Turbo", baseUrl |-> "https://api.openai.com/v1"]

Gpt35Turbo ==
    [id |-> "gpt-3.5-turbo", name |-> "GPT-3.5 Turbo", baseUrl |-> "https://api.openai.com/v1"]

\* The modelProvidersConfig values a manager is constructed with.
ManagerCatalogs ==
    { << [authType |-> USE_OPENAI, models |-> << >>] >>,
      << [authType |-> USE_OPENAI, models |-> << Gpt4Turbo, Gpt35Turbo >>] >> }

InitialAuthTypes == {Undefined, USE_OPENAI}

InitialModelIds == {Undefined, "gpt-4-turbo", "non-existent"}

\* Values of process.env['OPENAI_MODEL'].
EnvModels == {Undefined, "gpt-3.5-turbo"}

\* The constructions explored: every combination of the values above, the
\* default authType being constructed with the full catalog only.
Constructions ==
    { k \in [modelProvidersConfig : ManagerCatalogs, initialAuthType : InitialAuthTypes,
             initialModelId : InitialModelIds, env : EnvModels] :
        k.initialAuthType = Undefined =>
            \E i \in 1..Len(k.modelProvidersConfig) : Len(k.modelProvidersConfig[i].models) > 0 }

\* Identifiers passed to switchModel.
SwitchIds == {"coder-model", "gpt-4-turbo", "gpt-3.5-turbo"}

\* The registered change callback (Undefined when none is registered).
Callback == "onModelChange"

\* ------------------------------------------------------------------- state

VARIABLES
    modelRegistry,          \* this.modelRegistry
    currentAuthType,        \* this.currentAuthType
    currentModelId,         \* this.currentModelId
    selectionSource,        \* this.selectionSource
    selectionTimestamp,     \* this.selectionTimestamp
    onModelChange,          \* this.onModelChange
    now,                    \* the value Date.now() returns
    calls,                  \* the switchModel calls suspended at their await
    lastReturn              \* what the latest step returned or threw to its caller

vars == <<modelRegistry, currentAuthType, currentModelId, selectionSource,
          selectionTimestamp, onModelChange, now, calls, lastReturn>>

selection == <<currentAuthType, currentModelId, selectionSource, selectionTimestamp>>

\* A call slot with no switchModel call in it.
Idle == [pc |-> "idle"]

InFlight(c) == calls[c].pc # "idle"

NoneInFlight == \A c \in Calls : ~InFlight(c)

\* The value of a recorded argument that is no longer kept.
Forgotten == "<forgotten>"

\* ----------------------------------------------------------- construction

\* A lookup of the environment that serves every authType.
getModelFromEnvironmentAnyAuthType(authType, env) == env

\* getModelFromEnvironment
getModelFromEnvironment(authType, env) ==
    IF authType = USE_OPENAI THEN env ELSE Undefined

\* A constructor that takes the openai authType when none is supplied.
InitialAuthTypeOpenAi(opts) ==
    IF Truthy(opts.initialAuthType) THEN opts.initialAuthType ELSE USE_OPENAI

\* options.initialAuthType || AuthType.QWEN_OAUTH
InitialAuthType(opts) ==
    IF Truthy(opts.initialAuthType) THEN opts.initialAuthType ELSE QWEN_OAUTH

\* The fields of a manager after the constructor and
\* initializeDefaultSelection: [currentAuthType, currentModelId, selectionSource].
initializeDefaultSelection(reg, opts, env) ==
    LET authType == InitialAuthType(opts)
        modelId == IF Truthy(opts.initialModelId) THEN opts.initialModelId ELSE ""
        envModel == getModelFromEnvironment(authType, env)
        defaultModel == getDefaultModelForAuthType(reg, authType)
    IN  IF Truthy(modelId) /\ hasModel(reg, authType, modelId)
        THEN [currentAuthType |-> authType, currentModelId |-> modelId,
              selectionSource |-> SETTINGS]
        ELSE IF Truthy(envModel) /\ hasModel(reg, authType, envModel)
        THEN [currentAuthType |-> authType, currentModelId |-> envModel,
              selectionSource |-> ENVIRONMENT]
        ELSE IF defaultModel # NotFound
        THEN [currentAuthType |-> authType, currentModelId |-> defaultModel.id,
              selectionSource |-> DEFAULT]
        ELSE [currentAuthType |-> authType, currentModelId |-> modelId,
              selectionSource |-> DEFAULT]

\* new ModelSelectionManager(options) at clock value 0; lastReturn keeps what
\* the constructor was called with.
Init ==
    \E k \in Constructions :
        /\ modelRegistry = ModelRegistry(k.modelProvidersConfig)
        /\ LET m == initializeDefaultSelection(modelRegistry, k, k.env)
           IN  /\ currentAuthType = m.currentAuthType
               /\ currentModelId = m.currentModelId
               /\ selectionSource = m.selectionSource
        /\ now = 0
        /\ selectionTimestamp = now
        /\ onModelChange \in {Undefined, Callback}
        /\ calls = [c \in Calls |-> Idle]
        /\ lastReturn = [op |-> "constructor", outcome |-> "ok", options |-> k]

\* -------------------------------------------------------------- switchModel

\* A validation that accepts an identifier registered for any authType.
ValidatesAnyAuthType(modelId) ==
    \E authType \in AuthTypes : getModel(modelRegistry, authType, modelId) # NotFound

\* The validation of switchModel: getModel found the identifier for the
\* current authType.
Validates(modelId) == getModel(modelRegistry, currentAuthType, modelId) # NotFound

\* A commit that assigns nothing when the identifier is already the current
\* one.
CommitUnlessCurrent(modelId, source) ==
    IF modelId = currentModelId
    THEN UNCHANGED <<currentModelId, selectionSource, selectionTimestamp>>
    ELSE /\ currentModelId' = modelId
         /\ selectionSource' = source
         /\ selectionTimestamp' = now

\* A commit that leaves the timestamp as it was.
CommitKeepsTimestamp(modelId, source) ==
    /\ currentModelId' = modelId
    /\ selectionSource' = source
    /\ UNCHANGED selectionTimestamp

\* The three assignments of the try block.
Commit(modelId, source) ==
    /\ currentModelId' = modelId
    /\ selectionSource' = source
    /\ selectionTimestamp' = now

\* A catch block that rethrows without restoring the identifier.
RollbackMissing(call) ==
    UNCHANGED <<currentModelId, selectionSource, selectionTimestamp>>

\* A catch block that clears the identifier instead of restoring it.
RollbackToEmpty(call) ==
    /\ currentModelId' = ""
    /\ UNCHANGED <<selectionSource, selectionTimestamp>>

\* The catch block: only the identifier is assigned.
Rollback(call) ==
    /\ currentModelId' = call.previousModelId
    /\ UNCHANGED <<selectionSource, selectionTimestamp>>

\* What is recorded of a switchModel call when it starts: its identifier and
\* the local previousModelId; the source it was given and the source it
\* started from (both kept until another call commits); the clock value of
\* its commit; and whether it is the only call (solo: no other call is
\* suspended or commits while it runs).
NewCall(modelId, source) ==
    [modelId |-> modelId, previousModelId |-> currentModelId,
     source |-> source, stamp |-> now,
     beforeSource |-> IF NoneInFlight THEN selectionSource ELSE Forgotten,
     solo |-> NoneInFlight, invocations |-> << >>]

\* An invocation made before the commit: the callback reads the old identifier.
InvokeBeforeCommit(call) ==
    [call EXCEPT !.invocations = Append(@,
        [authType |-> currentAuthType,
         model |-> getModel(modelRegistry, currentAuthType, call.modelId),
         observedModelId |-> currentModelId])]

\* The invocation of the callback: its two arguments, and the identifier the
\* callback reads as current while it runs (the committed one).
Invoke(call) ==
    [call EXCEPT !.invocations = Append(@,
        [authType |-> currentAuthType,
         model |-> getModel(modelRegistry, currentAuthType, call.modelId),
         observedModelId |-> call.modelId])]

\* What a suspended call keeps of its record: a call that started while
\* another one was suspended does not keep the sources.
Kept(call) ==
    IF call.solo THEN call
    ELSE [call EXCEPT !.source = Forgotten, !.beforeSource = Forgotten]

\* Every suspended call learns that another call committed meanwhile.
Overlapped(cs) ==
    [d \in Calls |->
        IF cs[d].pc # "idle"
        THEN [cs[d] EXCEPT !.call.solo = FALSE, !.call.source = Forgotten,
                           !.call.beforeSource = Forgotten]
        ELSE cs[d]]

\* A step in which no operation of the manager returns.
NoReturn == [op |-> "none", outcome |-> "none"]

\* What a finished switchModel call leaves for its caller to see.
Returned(outcome, call) == [op |-> "switchModel", outcome |-> outcome, call |-> call]

\* What the caller of a finished call is shown of it.
Seen(call) == IF call.solo THEN call ELSE [call EXCEPT !.stamp = -1]

\* A further switchModel call can be made.
CanCall == \E c \in Calls : ~InFlight(c)

\* The first free call slot.
FreeCall == IF ~InFlight("call1") THEN "call1" ELSE "call2"

\* switchModel(modelId, source) for an identifier getModel does not find:
\* throws before anything is assigned and before source is read.
SwitchNotFound(modelId) ==
    /\ CanCall
    /\ ~Validates(modelId)
    /\ lastReturn' = Returned("not_found",
                              [NewCall(modelId, Forgotten) EXCEPT !.stamp = -1])
    /\ UNCHANGED <<modelRegistry, selection, onModelChange, now, calls>>

\* switchModel with no callback registered: commits and returns without
\* suspending.
SwitchNoCallback(modelId, source) ==
    /\ CanCall
    /\ Validates(modelId)
    /\ onModelChange = Undefined
    /\ Commit(modelId, source)
    /\ calls' = Overlapped(calls)
    /\ lastReturn' = Returned("ok", NewCall(modelId, source))
    /\ UNCHANGED <<modelRegistry, currentAuthType, onModelChange, now>>

\* switchModel whose callback throws before it returns a promise: the commit
\* and the rollback to the identifier it started from happen in one turn.
SwitchCallbackThrows(modelId, source) ==
    /\ CanCall
    /\ Validates(modelId)
    /\ onModelChange # Undefined
    /\ currentModelId' = currentModelId
    /\ selectionSource' = source
    /\ selectionTimestamp' = now
    /\ calls' = Overlapped(calls)
    /\ lastReturn' = Returned("callback_error", Invoke(NewCall(modelId, source)))
    /\ UNCHANGED <<modelRegistry, currentAuthType, onModelChange, now>>

\* switchModel up to its await: commits, invokes the callback and suspends
\* on the promise the callback returned.
SwitchAwait(modelId, source) ==
    /\ CanCall
    /\ Validates(modelId)
    /\ onModelChange # Undefined
    /\ Commit(modelId, source)
    /\ calls' = [Overlapped(calls) EXCEPT ![FreeCall] =
                    [pc |-> "awaiting", call |-> Kept(Invoke(NewCall(modelId, source)))]]
    /\ lastReturn' = Returned("pending", Invoke(NewCall(modelId, source)))
    /\ UNCHANGED <<modelRegistry, currentAuthType, onModelChange, now>>

\* The promise returned by the callback settles (fulfilled or rejected).
CallbackSettles(c, fulfilled) ==
    /\ calls[c].pc = "awaiting"
    /\ calls' = [calls EXCEPT ![c].pc = IF fulfilled THEN "fulfilled" ELSE "rejected"]
    /\ lastReturn' = NoReturn
    /\ UNCHANGED <<modelRegistry, selection, onModelChange, now>>

\* A call that does not await: it goes on while the promise is still pending.
AwaitSkipped(c) == calls[c].pc \in {"awaiting", "fulfilled"}

\* The await is over once the promise is fulfilled (rejected).
AwaitFulfilled(c) == calls[c].pc = "fulfilled"

AwaitRejected(c) == calls[c].pc = "rejected"

\* The continuation after a fulfilled await: switchModel returns.
ResumeReturn(c) ==
    /\ AwaitFulfilled(c)
    /\ calls' = [calls EXCEPT ![c] = Idle]
    /\ lastReturn' = Returned("ok", Seen(calls[c].call))
    /\ UNCHANGED <<modelRegistry, selection, onModelChange, now>>

\* The continuation after a rejected await: the catch block rolls the
\* identifier back and rethrows.
ResumeRollback(c) ==
    /\ AwaitRejected(c)
    /\ Rollback(calls[c].call)
    /\ calls' = [calls EXCEPT ![c] = Idle]
    /\ lastReturn' = Returned("callback_error", Seen(calls[c].call))
    /\ UNCHANGED <<modelRegistry, currentAuthType, onModelChange, now>>

\* ------------------------------------------------------ queries and setters

\* A getCurrentModel that returns whatever the registry lookup gave.
getCurrentModelUnchecked ==
    [op |-> "getCurrentModel", outcome |-> "ok",
     value |-> [authType |-> currentAuthType, modelId |-> currentModelId,
                model |-> getModel(modelRegistry, currentAuthType, currentModelId),
                selectionSource |-> selectionSource]]

\* getCurrentModel: what it returns, or the error it throws.
getCurrentModel ==
    LET model == getModel(modelRegistry, currentAuthType, currentModelId)
    IN  IF ~Truthy(currentModelId)
        THEN [op |-> "getCurrentModel", outcome |-> "no_model_selected"]
        ELSE IF model = NotFound
        THEN [op |-> "getCurrentModel", outcome |-> "current_model_not_found"]
        ELSE [op |-> "getCurrentModel", outcome |-> "ok",
              value |-> [authType |-> currentAuthType, modelId |-> currentModelId,
                         model |-> model, selectionSource |-> selectionSource]]

\* A query: its result is returned and nothing is assigned.
Query ==
    /\ lastReturn' = getCurrentModel
    /\ UNCHANGED <<modelRegistry, selection, onModelChange, now, calls>>

setOnModelChange(callback) ==
    /\ onModelChange' = callback
    /\ lastReturn' = NoReturn
    /\ UNCHANGED <<modelRegistry, selection, now, calls>>

\* Time passes: Date.now() never goes back.
Tick ==
    /\ now < MaxClock
    /\ now' = now + 1
    /\ lastReturn' = NoReturn
    /\ UNCHANGED <<modelRegistry, selection, onModelChange, calls>>

Next ==
    \/ \E modelId \in SwitchIds : SwitchNotFound(modelId)
    \/ \E modelId \in SwitchIds, source \in SelectionSource :
          \/ SwitchNoCallback(modelId, source)
          \/ SwitchCallbackThrows(modelId, source)
          \/ SwitchAwait(modelId, source)
    \/ \E c \in Calls :
          \/ \E fulfilled \in BOOLEAN : CallbackSettles(c, fulfilled)
          \/ ResumeReturn(c)
          \/ ResumeRollback(c)
    \/ Query
    \/ setOnModelChange(Callback)
    \/ Tick

Spec == Init /\ [][Next]_vars

\* The continuations run once their promise has settled (the event loop runs
\* every queued continuation).
FairSpec ==
    /\ Init
    /\ [][Next]_vars
    /\ \A c \in Calls : WF_vars(ResumeReturn(c)) /\ WF_vars(ResumeRollback(c))

\* ------------------------------------------- registry queries and catalogs

\* getAvailableAuthTypes: the keys of modelsByAuthType in insertion order.
getAvailableAuthTypes(reg) ==
    [i \in 1..Len(reg.modelsByAuthType) |-> reg.modelsByAuthType[i].key]

\* hasAuthType: the authType has an entry and the entry is not empty.
hasAuthType(reg, authType) ==
    MapHas(reg.modelsByAuthType, authType) /\ Len(ModelsOf(reg, authType)) > 0

\* The sum of the sizes of the values of a Map.
RECURSIVE SumOfSizes(_)
SumOfSizes(map) ==
    IF map = << >> THEN 0 ELSE Len(Head(map).value) + SumOfSizes(Tail(map))

\* A count taken from the reverse index: one per registration.
getTotalModelCountFromIndex(reg) == SumOfSizes(reg.modelIdToAuthTypes)

\* getTotalModelCount: the sizes of the Maps of all authTypes, added up.
getTotalModelCount(reg) == SumOfSizes(reg.modelsByAuthType)

\* Array.prototype.filter((at) => at !== authType).
RECURSIVE FilterOut(_, _)
FilterOut(authTypes, authType) ==
    IF authTypes = << >> THEN << >>
    ELSE IF Head(authTypes) = authType THEN FilterOut(Tail(authTypes), authType)
    ELSE << Head(authTypes) >> \o FilterOut(Tail(authTypes), authType)

\* Array.prototype.includes.
Includes(authTypes, authType) == \E i \in 1..Len(authTypes) : authTypes[i] = authType

\* A reverse lookup that ignores the preferred authType.
findAuthTypesForModelAsIndexed(reg, modelId, preferredAuthType) ==
    IF MapHas(reg.modelIdToAuthTypes, modelId)
    THEN reg.modelIdToAuthTypes[MapIndex(reg.modelIdToAuthTypes, modelId)].value
    ELSE << >>

\* findAuthTypesForModel(modelId, preferredAuthType); preferredAuthType is
\* Undefined when the argument is left out.
findAuthTypesForModel(reg, modelId, preferredAuthType) ==
    LET authTypes ==
            IF MapHas(reg.modelIdToAuthTypes, modelId)
            THEN reg.modelIdToAuthTypes[MapIndex(reg.modelIdToAuthTypes, modelId)].value
            ELSE << >>
    IN  IF ~Truthy(preferredAuthType) \/ ~Includes(authTypes, preferredAuthType)
        THEN authTypes
        ELSE << preferredAuthType >> \o FilterOut(authTypes, preferredAuthType)

\* Model configurations of the registry's tests.
CustomQwen == [id |-> "custom-qwen", name |-> "Custom Qwen"]

Gpt4 == [id |-> "gpt-4", name |-> "GPT-4"]

Gpt4Tuned ==
    [id |-> "gpt-4-turbo", name |-> "GPT-4 Turbo", baseUrl |-> "https://api.openai.com/v1",
     generationConfig |-> [temperature |-> 8, max_tokens |-> 4096]]

SharedOpenAi == [id |-> "shared-model", name |-> "Shared"]

SharedGemini == [id |-> "shared-model", name |-> "Shared Gemini"]

EmptyId == [id |-> "", name |-> "No ID"]

\* A configuration object without the id field.
MissingId == [name |-> "No ID"]

\* A model with a base URL of its own, and one whose name and base URL are
\* empty strings.
DeepSeek == [id |-> "deepseek", name |-> "DeepSeek", baseUrl |-> "https://api.deepseek.com/v1"]

Unnamed == [id |-> "unnamed", name |-> "", baseUrl |-> ""]

\* A user's model that takes the identifier of a built-in one.
CoderOpenAi == [id |-> "coder-model", generationConfig |-> [temperature |-> 5]]

\* The modelProvidersConfig values a registry is constructed with: none, one
\* under the qwen-oauth key, an empty list, an identifier shared by two
\* authTypes or with the built-in authType, an identifier listed twice, and
\* malformed entries at different places.
RegistryCatalogs ==
    { << >>,
      << [authType |-> QWEN_OAUTH, models |-> << CustomQwen >>] >>,
      << [authType |-> USE_OPENAI, models |-> << Gpt4Tuned >>] >>,
      << [authType |-> USE_OPENAI, models |-> << >>] >>,
      << [authType |-> USE_OPENAI, models |-> << SharedOpenAi, Gpt4 >>],
         [authType |-> USE_GEMINI, models |-> << SharedGemini >>] >>,
      << [authType |-> USE_GEMINI, models |-> << SharedGemini >>],
         [authType |-> USE_OPENAI, models |-> << CoderOpenAi, SharedOpenAi >>] >>,
      << [authType |-> USE_OPENAI, models |-> << Gpt4Turbo, Gpt4Tuned >>] >>,
      << [authType |-> USE_OPENAI, models |-> << Gpt4, MissingId >>],
         [authType |-> USE_GEMINI, models |-> << SharedGemini >>] >>,
      << [authType |-> USE_GEMINI, models |-> << SharedGemini >>],
         [authType |-> USE_OPENAI, models |-> << EmptyId, Gpt4 >>] >>,
      << [authType |-> QWEN_OAUTH, models |-> << EmptyId, MissingId >>],
         [authType |-> USE_OPENAI, models |-> << Gpt4 >>] >>,
      << [authType |-> USE_GEMINI, models |-> << DeepSeek, Unnamed >>],
         [authType |-> USE_OPENAI, models |-> << DeepSeek, Unnamed >>] >> }

\* Identifiers the registry is asked about.
QueryIds ==
    {"coder-model", "vision-model", "custom-qwen", "gpt-4", "gpt-4-turbo",
     "shared-model", "deepseek", "unnamed", "non-existent", ""}

\* new ModelSelectionManager(k) at clock value 0 with no callback. When the
\* registry's constructor throws there is no manager: its fields are
\* Undefined and the error is what the caller gets.
Constructed(k) ==
    LET reg == ModelRegistry(k.modelProvidersConfig)
        m == initializeDefaultSelection(reg, k, k.env)
    IN  /\ modelRegistry = reg
        /\ IF reg.threw
           THEN /\ currentAuthType = Undefined
                /\ currentModelId = Undefined
                /\ selectionSource = Undefined
                /\ lastReturn = [op |-> "constructor", outcome |-> "error",
                                 errorAuthType |-> reg.errorAuthType, options |-> k]
           ELSE /\ currentAuthType = m.currentAuthType
                /\ currentModelId = m.currentModelId
                /\ selectionSource = m.selectionSource
                /\ lastReturn = [op |-> "constructor", outcome |-> "ok", options |-> k]
        /\ now = 0
        /\ selectionTimestamp = now
        /\ onModelChange = Undefined
        /\ calls = [c \in Calls |-> Idle]

\* The registry (and the manager around it) exists.
Exists == ~modelRegistry.threw

\* The registry queries: the result is returned and nothing is assigned.
RegistryGetModel(authType, modelId) ==
    /\ Exists
    /\ lastReturn' = [op |-> "registry.getModel", authType |-> authType, modelId |-> modelId,
                   value |-> getModel(modelRegistry, authType, modelId)]
    /\ UNCHANGED <<modelRegistry, selection, onModelChange, now, calls>>

RegistryHasModel(authType, modelId) ==
    /\ Exists
    /\ lastReturn' = [op |-> "registry.hasModel", authType |-> authType, modelId |-> modelId,
                   value |-> hasModel(modelRegistry, authType, modelId)]
    /\ UNCHANGED <<modelRegistry, selection, onModelChange, now, calls>>

RegistryGetDefault(authType) ==
    /\ Exists
    /\ lastReturn' = [op |-> "registry.getDefaultModelForAuthType", authType |-> authType,
                   value |-> getDefaultModelForAuthType(modelRegistry, authType)]
    /\ UNCHANGED <<modelRegistry, selection, onModelChange, now, calls>>

RegistryFindAuthTypes(modelId, preferredAuthType) ==
    /\ Exists
    /\ lastReturn' = [op |-> "registry.findAuthTypesForModel", modelId |-> modelId,
                   preferredAuthType |-> preferredAuthType,
                   value |-> findAuthTypesForModel(modelRegistry, modelId, preferredAuthType)]
    /\ UNCHANGED <<modelRegistry, selection, onModelChange, now, calls>>

RegistryGetAvailableAuthTypes ==
    /\ Exists
    /\ lastReturn' = [op |-> "registry.getAvailableAuthTypes",
                   value |-> getAvailableAuthTypes(modelRegistry)]
    /\ UNCHANGED <<modelRegistry, selection, onModelChange, now, calls>>

RegistryHasAuthType(authType) ==
    /\ Exists
    /\ lastReturn' = [op |-> "registry.hasAuthType", authType |-> authType,
                   value |-> hasAuthType(modelRegistry, authType)]
    /\ UNCHANGED <<modelRegistry, selection, onModelChange, now, calls>>

RegistryGetTotalModelCount ==
    /\ Exists
    /\ lastReturn' = [op |-> "registry.getTotalModelCount",
                      value |-> getTotalModelCount(modelRegistry)]
    /\ UNCHANGED <<modelRegistry, selection, onModelChange, now, calls>>

\* Registries constructed from every catalog (by a manager with no other
\* option), and the queries made of them.
RegistryInit ==
    \E catalog \in RegistryCatalogs :
        Constructed([modelProvidersConfig |-> catalog, initialAuthType |-> Undefined,
                     initialModelId |-> Undefined, env |-> Undefined])

RegistryNext ==
    \/ \E authType \in AuthTypes, modelId \in QueryIds :
          \/ RegistryGetModel(authType, modelId)
          \/ RegistryHasModel(authType, modelId)
    \/ \E authType \in AuthTypes : RegistryGetDefault(authType)
    \/ \E modelId \in QueryIds, preferredAuthType \in AuthTypes \cup {Undefined} :
          RegistryFindAuthTypes(modelId, preferredAuthType)
    \/ RegistryGetAvailableAuthTypes
    \/ \E authType \in AuthTypes : RegistryHasAuthType(authType)
    \/ RegistryGetTotalModelCount

RegistrySpec == RegistryInit /\ [][RegistryNext]_vars

\* Options a manager is constructed with over the registry's catalogs.
ConstructionAuthTypes == {Undefined, USE_OPENAI, USE_GEMINI, USE_VERTEX_AI}

ConstructionModelIds ==
    {Undefined, "", "gpt-4", "shared-model", "vision-model", "non-existent"}

ConstructionEnvModels == {Undefined, "", "gpt-4", "shared-model", "vision-model"}

\* Managers constructed with every combination of catalog and options, and
\* the getCurrentModel query made of them.
ConstructionInit ==
    \E k \in [modelProvidersConfig : RegistryCatalogs,
              initialAuthType : ConstructionAuthTypes,
              initialModelId : ConstructionModelIds,
              env : ConstructionEnvModels] : Constructed(k)

ConstructionNext == Exists /\ Query

ConstructionSpec == ConstructionInit /\ [][ConstructionNext]_vars

\* ------------------------------------------------- the manager's delegations

\* The AvailableModel that getModelsForAuthType makes of a resolved model.
AvailableModel(model) ==
    [id |-> model.id, label |-> model.name,
     description |-> IF Has(model, "description") THEN model.description ELSE Undefined,
     capabilities |-> model.capabilities, authType |-> model.authType,
     isVision |-> IF Has(model.capabilities, "vision") THEN model.capabilities.vision
                  ELSE FALSE]

\* ModelRegistry.getModelsForAuthType.
getModelsForAuthType(reg, authType) ==
    LET models == ModelsOf(reg, authType)
    IN  [i \in 1..Len(models) |-> AvailableModel(models[i].value)]

\* A delegation that asks the registry about the current authType.
managerHasModelOfCurrentAuthType(authType, modelId) ==
    hasModel(modelRegistry, currentAuthType, modelId)

\* ModelSelectionManager.hasModel, getModel and getAvailableModels.
managerHasModel(authType, modelId) == hasModel(modelRegistry, authType, modelId)

managerGetModel(authType, modelId) == getModel(modelRegistry, authType, modelId)

getAvailableModels == getModelsForAuthType(modelRegistry, currentAuthType)

HasModelQuery(authType, modelId) ==
    /\ lastReturn' = [op |-> "hasModel", authType |-> authType, modelId |-> modelId,
                      value |-> managerHasModel(authType, modelId)]
    /\ UNCHANGED <<modelRegistry, selection, onModelChange, now, calls>>

GetModelQuery(authType, modelId) ==
    /\ lastReturn' = [op |-> "getModel", authType |-> authType, modelId |-> modelId,
                      value |-> managerGetModel(authType, modelId)]
    /\ UNCHANGED <<modelRegistry, selection, onModelChange, now, calls>>

GetAvailableModelsQuery ==
    /\ lastReturn' = [op |-> "getAvailableModels", value |-> getAvailableModels]
    /\ UNCHANGED <<modelRegistry, selection, onModelChange, now, calls>>

\* The authTypes the delegating managers are constructed with.
DelegationAuthTypes == {Undefined, USE_OPENAI, USE_GEMINI}

\* Managers over every catalog, without a callback: their switches return at
\* once, and their delegating queries are made in between.
DelegationInit ==
    \E k \in [modelProvidersConfig : RegistryCatalogs,
              initialAuthType : DelegationAuthTypes,
              initialModelId : {Undefined}, env : {Undefined}] : Constructed(k)

DelegationNext ==
    /\ Exists
    /\ \/ \E modelId \in QueryIds : SwitchNotFound(modelId)
       \/ \E modelId \in QueryIds : SwitchNoCallback(modelId, USER_MANUAL)
       \/ \E authType \in AuthTypes, modelId \in QueryIds :
             \/ HasModelQuery(authType, modelId)
             \/ GetModelQuery(authType, modelId)
       \/ GetAvailableModelsQuery

DelegationSpec == DelegationInit /\ [][DelegationNext]_vars

\* ------------------------------------------- one batch of overlapping calls

\* A call of the batch has returned (thrown): its slot keeps its record.
Finished(c) == calls[c].pc \in {"returned", "failed"}

\* switchModel called while no call of the batch has finished yet, so that a
\* second call overlaps the first.
BatchSwitch(modelId, source) ==
    /\ \A c \in Calls : ~Finished(c)
    /\ SwitchAwait(modelId, source)

\* The continuations of switchModel, as ResumeReturn and ResumeRollback,
\* with the record of the finished call left in its slot.
ResumeReturnRecorded(c) ==
    /\ AwaitFulfilled(c)
    /\ calls' = [calls EXCEPT ![c].pc = "returned"]
    /\ lastReturn' = Returned("ok", Seen(calls[c].call))
    /\ UNCHANGED <<modelRegistry, selection, onModelChange, now>>

ResumeRollbackRecorded(c) ==
    /\ AwaitRejected(c)
    /\ Rollback(calls[c].call)
    /\ calls' = [calls EXCEPT ![c].pc = "failed"]
    /\ lastReturn' = Returned("callback_error", Seen(calls[c].call))
    /\ UNCHANGED <<modelRegistry, currentAuthType, onModelChange, now>>

\* A manager gets its callback and then one batch of at most two calls, the
\* second started while the first is suspended.
BatchNext ==
    \/ setOnModelChange(Callback)
    \/ \E modelId \in SwitchIds : BatchSwitch(modelId, USER_MANUAL)
    \/ \E c \in Calls :
          \/ \E fulfilled \in BOOLEAN : CallbackSettles(c, fulfilled)
          \/ ResumeReturnRecorded(c)
          \/ ResumeRollbackRecorded(c)

BatchSpec == Init /\ [][BatchNext]_vars

\* ------------------------------------------------ switches one at a time

SerialAuthTypes == {Undefined, USE_OPENAI, USE_VERTEX_AI}

SerialModelIds == {Undefined, "vision-model", "non-existent"}

\* Identifiers passed to switchModel by a caller that awaits each call.
SerialSwitchIds == {"coder-model", "vision-model", "gpt-4", "non-existent"}

\* Managers over every catalog, constructed for qwen-oauth, for openai and
\* for an authType no catalog lists.
SerialInit ==
    \E k \in [modelProvidersConfig : RegistryCatalogs,
              initialAuthType : SerialAuthTypes,
              initialModelId : SerialModelIds, env : {Undefined}] : Constructed(k)

\* The caller starts a switchModel call only when the one before has
\* returned.
SerialNext ==
    /\ Exists
    /\ \/ /\ NoneInFlight
          /\ \E modelId \in SerialSwitchIds :
                \/ SwitchNotFound(modelId)
                \/ SwitchNoCallback(modelId, USER_MANUAL)
                \/ SwitchCallbackThrows(modelId, USER_MANUAL)
                \/ SwitchAwait(modelId, USER_MANUAL)
       \/ \E c \in Calls :
             \/ \E fulfilled \in BOOLEAN : CallbackSettles(c, fulfilled)
             \/ ResumeReturn(c)
             \/ ResumeRollback(c)
       \/ Query
       \/ setOnModelChange(Callback)
       \/ Tick

SerialSpec == SerialInit /\ [][SerialNext]_vars

\* ------------------------------------------------------------- properties

\* Steps of a switchModel call: it suspends in slot c, it leaves slot c, or
\* it starts and finishes in one step without suspending.
Starts(c) == calls[c].pc = "idle" /\ calls'[c].pc # "idle"

Completes(c) == calls[c].pc # "idle" /\ calls'[c].pc = "idle"

SyncReturn ==
    /\ lastReturn' # lastReturn
    /\ lastReturn'.op = "switchModel"
    /\ lastReturn'.outcome # "pending"
    /\ \A c \in Calls : ~Completes(c)

Registered(modelId) == hasModel(modelRegistry, currentAuthType, modelId)

\* C1: a switchModel call with an identifier that is not registered for the
\* current authType never commits or suspends; it throws not-found, invokes
\* no callback, and leaves the authType, the identifier, the source and the
\* timestamp (and every suspended call) as they were.
C1_NotFoundLeavesStateUntouched ==
    [][ /\ \A c \in Calls : Starts(c) => Registered(calls'[c].call.modelId)
        /\ (SyncReturn /\ ~Registered(lastReturn'.call.modelId))
              => /\ lastReturn'.outcome = "not_found"
                 /\ lastReturn'.call.invocations = << >>
                 /\ UNCHANGED <<selection, calls, onModelChange>>
      ]_vars

\* A not-found failure reported while another switch is suspended.
C1_Witness ==
    /\ lastReturn.op = "switchModel"
    /\ lastReturn.outcome = "not_found"
    /\ ~Registered(lastReturn.call.modelId)
    /\ ~NoneInFlight

\* C2: a switchModel call whose callback fails (its promise is rejected, or
\* it throws at once) fails with the callback's error and leaves the current
\* identifier equal to the value it had when the call started; the call
\* remembers that value unchanged while it is suspended.
C2_CallbackFailureRestoresIdentifier ==
    [][ /\ \A c \in Calls : Starts(c) => calls'[c].call.previousModelId = currentModelId
        /\ \A c \in Calls :
              (InFlight(c) /\ calls'[c].pc # "idle")
                 => calls'[c].call.previousModelId = calls[c].call.previousModelId
        /\ \A c \in Calls :
              (Completes(c) /\ calls[c].pc = "rejected")
                 => /\ lastReturn'.op = "switchModel"
                    /\ lastReturn'.outcome = "callback_error"
                    /\ currentModelId' = calls[c].call.previousModelId
        /\ (SyncReturn /\ lastReturn'.call.invocations # << >>)
              => /\ lastReturn'.outcome = "callback_error"
                 /\ currentModelId' = currentModelId
      ]_vars

\* A solo call that failed on its callback and put the old identifier back.
C2_Witness ==
    /\ lastReturn.op = "switchModel"
    /\ lastReturn.outcome = "callback_error"
    /\ lastReturn.call.solo
    /\ NoneInFlight
    /\ lastReturn.call.modelId # lastReturn.call.previousModelId
    /\ currentModelId = lastReturn.call.previousModelId

\* C3: whenever no switch is executing, the current identifier is empty or
\* registered for the current authType.
C3_CurrentIdEmptyOrRegistered ==
    NoneInFlight => (currentModelId = "" \/ Registered(currentModelId))

\* C4: while a switchModel call is between its commit and its completion, no
\* other switchModel call validates or commits.
C4_SwitchCallsAtomic ==
    [][ (\E c \in Calls : InFlight(c))
           => ~(SyncReturn \/ \E d \in Calls : Starts(d)) ]_vars

\* C5: when a call fails because its callback failed, the identifier is the
\* one the call started from, and the source and the timestamp are the ones
\* that call wrote at its commit: the source it was given (wherever the call
\* still knows it) and the clock value of its commit.
C5_FailedSwitchKeepsItsSourceAndTimestamp ==
    [][ /\ \A c \in Calls :
              (Completes(c) /\ calls[c].pc = "rejected")
                 => /\ currentModelId' = calls[c].call.previousModelId
                    /\ selectionTimestamp' = calls[c].call.stamp
                    /\ calls[c].call.source # Forgotten
                          => selectionSource' = calls[c].call.source
        /\ (SyncReturn /\ lastReturn'.outcome = "callback_error")
              => /\ selectionSource' = lastReturn'.call.source
                 /\ selectionTimestamp' = lastReturn'.call.stamp
      ]_vars

\* C6: the selection is mutated only by a successful switch. After a switch
\* that failed, for an unknown identifier or a failing callback, the authType,
\* the identifier, the resolved definition and the source are those from
\* before the call; queries and setOnModelChange change none of the fields.
C6_FailedSwitchLeavesSelection ==
    [][ /\ (SyncReturn /\ lastReturn'.outcome # "ok")
              => /\ UNCHANGED <<currentAuthType, currentModelId, selectionSource>>
                 /\ getCurrentModel' = getCurrentModel
        /\ \A c \in Calls :
              (Completes(c) /\ calls[c].pc = "rejected")
                 => /\ currentAuthType' = currentAuthType
                    /\ currentModelId' = calls[c].call.previousModelId
                    /\ calls[c].call.beforeSource # Forgotten
                          => selectionSource' = calls[c].call.beforeSource
        /\ (lastReturn'.op = "getCurrentModel" \/ onModelChange' # onModelChange)
              => UNCHANGED selection
      ]_vars

\* A switchModel step: a call starts, finishes, or does both at once.
SwitchStep == SyncReturn \/ \E c \in Calls : Starts(c) \/ Completes(c)

\* C6 (amended): only switchModel assigns the selection, and it never assigns
\* the authType. A switch failing with not-found assigns nothing. A switch
\* failing on its callback leaves the identifier (and so the definition it
\* resolves to) as it was when the call started, but the source and the
\* timestamp written at its commit are not restored.
C6_FailedSwitchRestoresIdentifierOnly ==
    [][ /\ (selection' # selection) => SwitchStep
        /\ currentAuthType' = currentAuthType
        /\ (SyncReturn /\ lastReturn'.outcome = "not_found") => UNCHANGED selection
        /\ (SyncReturn /\ lastReturn'.outcome = "callback_error")
              => /\ currentModelId' = currentModelId
                 /\ selectionSource' = lastReturn'.call.source
                 /\ selectionTimestamp' = now
                 /\ getCurrentModel.outcome = "ok"
                       => getCurrentModel'.value.model = getCurrentModel.value.model
        /\ \A c \in Calls :
              (Completes(c) /\ calls[c].pc = "rejected")
                 => /\ currentModelId' = calls[c].call.previousModelId
                    /\ UNCHANGED <<selectionSource, selectionTimestamp>>
                    /\ getCurrentModel'.outcome = "ok"
                          => getCurrentModel'.value.model =
                                getModel(modelRegistry, currentAuthType,
                                         calls[c].call.previousModelId)
        /\ (lastReturn'.op = "getCurrentModel" \/ onModelChange' # onModelChange)
              => UNCHANGED selection
      ]_vars

\* A solo call rolled back: the identifier is the old one, the source and the
\* timestamp are the new ones.
C6_Witness ==
    /\ lastReturn.op = "switchModel"
    /\ lastReturn.outcome = "callback_error"
    /\ lastReturn.call.solo
    /\ NoneInFlight
    /\ lastReturn.call.modelId # lastReturn.call.previousModelId
    /\ currentModelId = lastReturn.call.previousModelId
    /\ lastReturn.call.beforeSource # lastReturn.call.source
    /\ selectionSource = lastReturn.call.source
    /\ selectionTimestamp = lastReturn.call.stamp
    /\ selectionTimestamp > 0

\* The one invocation a call to modelId makes: the callback is given the
\* current authType and the registry's definition of modelId, and reads
\* modelId as the current identifier.
TheInvocation(modelId) ==
    [authType |-> currentAuthType,
     model |-> getModel(modelRegistry, currentAuthType, modelId),
     observedModelId |-> modelId]

\* C7: a switchModel call to a registered identifier invokes a registered
\* callback exactly once, after the identifier, the source and the timestamp
\* are committed, with the current authType and the registry's definition of
\* the target; with no callback registered the call succeeds with the new
\* identifier and source committed.
C7_CallbackInvokedOnceAfterCommit ==
    [][ /\ \A c \in Calls :
              Starts(c) =>
                 /\ onModelChange # Undefined
                 /\ calls'[c].call.invocations = << TheInvocation(calls'[c].call.modelId) >>
                 /\ calls'[c].call.invocations[1].model # NotFound
                 /\ lastReturn'.outcome = "pending"
                 /\ lastReturn'.call.modelId = calls'[c].call.modelId
                 /\ currentModelId' = calls'[c].call.modelId
                 /\ selectionSource' = lastReturn'.call.source
                 /\ selectionTimestamp' = now
        /\ \A c \in Calls :
              (InFlight(c) /\ ~Completes(c))
                 => calls'[c].call.invocations = calls[c].call.invocations
        /\ \A c \in Calls :
              Completes(c) => lastReturn'.call.invocations = calls[c].call.invocations
        /\ (SyncReturn /\ Registered(lastReturn'.call.modelId))
              => IF onModelChange = Undefined
                 THEN /\ lastReturn'.outcome = "ok"
                      /\ lastReturn'.call.invocations = << >>
                      /\ currentModelId' = lastReturn'.call.modelId
                      /\ selectionSource' = lastReturn'.call.source
                 ELSE /\ lastReturn'.outcome = "callback_error"
                      /\ lastReturn'.call.invocations =
                            << TheInvocation(lastReturn'.call.modelId) >>
      ]_vars

\* A call suspended on its callback, which was invoked once and read the new
\* identifier, different from the one before.
C7_Witness ==
    \E c \in Calls :
        /\ calls[c].pc = "awaiting"
        /\ calls[c].call.solo
        /\ calls[c].call.modelId # calls[c].call.previousModelId
        /\ Len(calls[c].call.invocations) = 1
        /\ calls[c].call.invocations[1].observedModelId = currentModelId
        /\ calls[c].call.invocations[1].model.id = calls[c].call.modelId

\* C8: a suspended switchModel call completes only after its callback's
\* promise has settled, successfully after a fulfilled promise and with the
\* callback's error after a rejected one; and once the promise has settled,
\* the call eventually completes.
C8_SwitchCompletesAfterCallback ==
    /\ [][ \A c \in Calls :
              Completes(c) =>
                 /\ lastReturn'.op = "switchModel"
                 /\ \/ calls[c].pc = "fulfilled" /\ lastReturn'.outcome = "ok"
                    \/ calls[c].pc = "rejected" /\ lastReturn'.outcome = "callback_error"
         ]_vars
    /\ \A c \in Calls : (calls[c].pc \in {"fulfilled", "rejected"}) ~> (calls[c].pc = "idle")

\* A call that returned successfully after its callback's promise was fulfilled.
C8_Witness ==
    /\ lastReturn.op = "switchModel"
    /\ lastReturn.outcome = "ok"
    /\ Len(lastReturn.call.invocations) = 1
    /\ NoneInFlight

\* C9: the authType is the one supplied at construction, or qwen-oauth when
\* none is supplied, and no operation changes it.
C9_AuthTypeFixedAtConstruction ==
    /\ [](lastReturn.op = "constructor"
            => currentAuthType = IF lastReturn.options.initialAuthType = Undefined
                                 THEN "qwen-oauth"
                                 ELSE lastReturn.options.initialAuthType)
    /\ [][currentAuthType' = currentAuthType]_vars

\* A manager constructed without an authType, after a rolled-back switch.
C9_Witness ==
    /\ currentAuthType = "qwen-oauth"
    /\ lastReturn.op = "switchModel"
    /\ lastReturn.outcome = "callback_error"
    /\ NoneInFlight

\* C10: a switch to a registered identifier succeeds whatever the current
\* source and the source given are, and when it has returned successfully the
\* current identifier is its target and the current source is the one given
\* (wherever the call still knows it).
C10_AnySourceOverwritesAnySource ==
    [][ /\ (SyncReturn /\ lastReturn'.outcome = "ok")
              => /\ currentModelId' = lastReturn'.call.modelId
                 /\ selectionSource' = lastReturn'.call.source
        /\ \A c \in Calls :
              (Completes(c) /\ calls[c].pc = "fulfilled")
                 => /\ lastReturn'.outcome = "ok"
                    /\ currentModelId' = calls[c].call.modelId
                    /\ calls[c].call.source # Forgotten
                          => selectionSource' = calls[c].call.source
      ]_vars

\* The construction the manager in its initial state was made by.
JustConstructed == lastReturn.op = "constructor" /\ lastReturn.outcome = "ok"

\* The authType a construction with options k is for.
AuthTypeOf(k) == IF k.initialAuthType = Undefined THEN "qwen-oauth" ELSE k.initialAuthType

\* The initial identifier of options k is supplied and registered.
InitialIdValid(k) ==
    /\ k.initialModelId \notin {Undefined, ""}
    /\ hasModel(modelRegistry, AuthTypeOf(k), k.initialModelId)

\* The environment candidate of options k exists (openai only) and is registered.
EnvCandidateValid(k) ==
    /\ AuthTypeOf(k) = "openai"
    /\ k.env \notin {Undefined, ""}
    /\ hasModel(modelRegistry, AuthTypeOf(k), k.env)

\* C11: after construction, a supplied initial identifier registered for the
\* authType is current with source settings, even when the environment names
\* a registered model too; otherwise the environment candidate (openai only)
\* is current with source environment when it is registered; otherwise the
\* registry's default model for the authType, when there is one, is current
\* with source default.
C11_InitializationPrecedence ==
    JustConstructed =>
        LET k == lastReturn.options
            default == getDefaultModelForAuthType(modelRegistry, AuthTypeOf(k))
        IN  /\ InitialIdValid(k)
                 => currentModelId = k.initialModelId /\ selectionSource = "settings"
            /\ (~InitialIdValid(k) /\ EnvCandidateValid(k))
                 => currentModelId = k.env /\ selectionSource = "environment"
            /\ (~InitialIdValid(k) /\ ~EnvCandidateValid(k) /\ default # NotFound)
                 => currentModelId = default.id /\ selectionSource = "default"

\* A construction for openai whose initial identifier and environment
\* candidate are both registered and differ: the initial identifier wins.
C11_Witness ==
    /\ JustConstructed
    /\ InitialIdValid(lastReturn.options)
    /\ EnvCandidateValid(lastReturn.options)
    /\ lastReturn.options.env # lastReturn.options.initialModelId
    /\ currentModelId = lastReturn.options.initialModelId
    /\ selectionSource = "settings"

\* C12: after a construction in which the initial identifier is absent or
\* not registered, the environment candidate is absent or not registered and
\* the authType has no default model, the current identifier is empty.
C12_NoCandidateLeavesEmptyIdentifier ==
    JustConstructed =>
        LET k == lastReturn.options
        IN  ( /\ ~InitialIdValid(k)
              /\ ~EnvCandidateValid(k)
              /\ getDefaultModelForAuthType(modelRegistry, AuthTypeOf(k)) = NotFound )
            => currentModelId = ""

\* C13: getCurrentModel changes no state; it fails exactly when the current
\* identifier is empty or not registered for the current authType, and
\* otherwise returns the current authType, the current identifier, the
\* registry's definition stored under that authType and identifier, and the
\* current source.
C13_GetCurrentModel ==
    [][ lastReturn'.op = "getCurrentModel" =>
          /\ UNCHANGED <<modelRegistry, selection, onModelChange, now, calls>>
          /\ (lastReturn'.outcome # "ok")
                <=> ( \/ currentModelId = ""
                      \/ ~hasModel(modelRegistry, currentAuthType, currentModelId) )
          /\ lastReturn'.outcome = "ok" =>
                /\ lastReturn'.value.authType = currentAuthType
                /\ lastReturn'.value.modelId = currentModelId
                /\ lastReturn'.value.selectionSource = selectionSource
                /\ lastReturn'.value.model.id = currentModelId
                /\ lastReturn'.value.model.authType = currentAuthType
                /\ \E i \in 1..Len(ModelsOf(modelRegistry, currentAuthType)) :
                      /\ ModelsOf(modelRegistry, currentAuthType)[i].key = currentModelId
                      /\ ModelsOf(modelRegistry, currentAuthType)[i].value
                            = lastReturn'.value.model
      ]_vars

\* getCurrentModel failed on a manager whose identifier is not registered.
C13_Witness ==
    /\ lastReturn.op = "getCurrentModel"
    /\ lastReturn.outcome = "current_model_not_found"
    /\ currentModelId # ""
    /\ ~hasModel(modelRegistry, currentAuthType, currentModelId)

\* The user catalog has a non-empty list under the qwen-oauth key.
HasUserQwenList(catalog) ==
    \E i \in 1..Len(catalog) :
        catalog[i].authType = "qwen-oauth" /\ Len(catalog[i].models) > 0

\* C14: in every registry the qwen-oauth catalog is the two built-in models,
\* coder-model then vision-model; no other identifier is registered for
\* qwen-oauth, found by getModel or hasModel, or attributed to qwen-oauth by
\* the reverse lookup, whatever the user catalog holds under that key.
C14_QwenOAuthCatalogIsBuiltIn ==
    Exists =>
        LET models == ModelsOf(modelRegistry, "qwen-oauth")
        IN  /\ [i \in 1..Len(models) |-> models[i].key] = << "coder-model", "vision-model" >>
            /\ \A i \in 1..Len(models) :
                  /\ models[i].value.id = QWEN_OAUTH_MODELS[i].id
                  /\ models[i].value.name = QWEN_OAUTH_MODELS[i].name
                  /\ models[i].value.authType = "qwen-oauth"
            /\ \A modelId \in QueryIds \ {"coder-model", "vision-model"} :
                  /\ ~hasModel(modelRegistry, "qwen-oauth", modelId)
                  /\ getModel(modelRegistry, "qwen-oauth", modelId) = NotFound
                  /\ ~Includes(findAuthTypesForModel(modelRegistry, modelId, Undefined),
                               "qwen-oauth")
            /\ \A modelId \in {"coder-model", "vision-model"} :
                  Len(SelectSeq(findAuthTypesForModel(modelRegistry, modelId, Undefined),
                                LAMBDA at : at = "qwen-oauth")) = 1

\* A registry constructed from a catalog with a model under the qwen-oauth
\* key, which the registry does not have.
C14_Witness ==
    /\ JustConstructed
    /\ HasUserQwenList(lastReturn.options.modelProvidersConfig)
    /\ lastReturn.options.modelProvidersConfig[1].models[1].id = "custom-qwen"
    /\ ~hasModel(modelRegistry, "qwen-oauth", "custom-qwen")

\* The authTypes of a catalog, other than qwen-oauth, that list a model whose
\* id is missing or empty.
MalformedAuthTypes(catalog) ==
    { catalog[i].authType : i \in
        { i \in 1..Len(catalog) :
            /\ catalog[i].authType # "qwen-oauth"
            /\ \E j \in 1..Len(catalog[i].models) :
                  \/ "id" \notin DOMAIN catalog[i].models[j]
                  \/ catalog[i].models[j].id = "" } }

\* C15: constructing a registry, or a manager, from a catalog with a model
\* without identifier under an authType other than qwen-oauth fails with an
\* error that names that authType, wherever the entry sits; nothing is
\* registered and no manager exists. Other catalogs construct normally.
C15_MalformedEntryAbortsConstruction ==
    lastReturn.op = "constructor" =>
        LET malformed == MalformedAuthTypes(lastReturn.options.modelProvidersConfig)
        IN  /\ malformed # {} =>
                  /\ lastReturn.outcome = "error"
                  /\ lastReturn.errorAuthType \in malformed
                  /\ modelRegistry.modelsByAuthType = << >>
                  /\ modelRegistry.modelIdToAuthTypes = << >>
                  /\ currentAuthType = Undefined /\ currentModelId = Undefined
            /\ malformed = {} => lastReturn.outcome = "ok"

\* A failed construction: the malformed entry comes after a valid one and
\* before another authType's valid list.
C15_Witness ==
    /\ lastReturn.op = "constructor"
    /\ lastReturn.outcome = "error"
    /\ lastReturn.errorAuthType = "openai"
    /\ Len(lastReturn.options.modelProvidersConfig) = 2
    /\ lastReturn.options.modelProvidersConfig[1].authType = "openai"
    /\ "id" \in DOMAIN lastReturn.options.modelProvidersConfig[1].models[1]
    /\ "id" \notin DOMAIN lastReturn.options.modelProvidersConfig[1].models[2]
    /\ lastReturn.options.initialAuthType = "gemini-api-key"

\* The catalogs from which the constructor builds the registry at hand.
CatalogsOfRegistry ==
    { catalog \in RegistryCatalogs : ModelRegistry(catalog) = modelRegistry }

\* The list a catalog gives for an authType, empty when it has none.
ListedUnder(catalog, authType) ==
    IF \E i \in 1..Len(catalog) : catalog[i].authType = authType
    THEN catalog[CHOOSE i \in 1..Len(catalog) : catalog[i].authType = authType].models
    ELSE << >>

\* C16: getDefaultModelForAuthType returns coder-model for qwen-oauth whatever
\* the user catalog; for any other authType it returns the model listed
\* first under that authType in the catalog, and nothing when the catalog has
\* no list, or an empty list, for it.
C16_DefaultModelForAuthType ==
    lastReturn.op = "registry.getDefaultModelForAuthType" =>
        /\ CatalogsOfRegistry # {}
        /\ \A catalog \in CatalogsOfRegistry :
              LET listed == ListedUnder(catalog, lastReturn.authType)
              IN  IF lastReturn.authType = "qwen-oauth"
                  THEN /\ lastReturn.value # NotFound
                       /\ lastReturn.value.id = "coder-model"
                       /\ lastReturn.value.name = "Qwen Coder"
                       /\ lastReturn.value.authType = "qwen-oauth"
                  ELSE IF listed = << >>
                  THEN lastReturn.value = NotFound
                  ELSE /\ lastReturn.value # NotFound
                       /\ lastReturn.value.id = listed[1].id
                       /\ lastReturn.value.authType = lastReturn.authType

\* The default of an authType that is registered second and lists two models.
C16_Witness ==
    /\ lastReturn.op = "registry.getDefaultModelForAuthType"
    /\ lastReturn.authType = "openai"
    /\ getAvailableAuthTypes(modelRegistry) = << "qwen-oauth", "gemini-api-key", "openai" >>
    /\ Len(ModelsOf(modelRegistry, "openai")) = 2
    /\ lastReturn.value # NotFound
    /\ lastReturn.value.id = "coder-model"
    /\ lastReturn.value.authType = "openai"

\* The authTypes under which a user catalog registers an identifier, one per
\* registration, in the order of the catalog (the qwen-oauth key is skipped).
RECURSIVE UserRegistrations(_, _)
UserRegistrations(catalog, modelId) ==
    IF catalog = << >> THEN << >>
    ELSE LET entry == Head(catalog)
             listed == IF entry.authType = "qwen-oauth" THEN << >>
                       ELSE SelectSeq(entry.models, LAMBDA config : config.id = modelId)
         IN  [k \in 1..Len(listed) |-> entry.authType]
                 \o UserRegistrations(Tail(catalog), modelId)

\* The registrations of an identifier: the built-in list first, then the
\* user catalog.
Registrations(catalog, modelId) ==
    (IF \E i \in 1..Len(QWEN_OAUTH_MODELS) : QWEN_OAUTH_MODELS[i].id = modelId
     THEN << "qwen-oauth" >> ELSE << >>)
        \o UserRegistrations(catalog, modelId)

\* The elements of a sequence.
Range(seq) == { seq[i] : i \in 1..Len(seq) }

\* C17: findAuthTypesForModel(id, preferred) returns the authTypes that
\* registered id and no other, in registration order (qwen-oauth first, then
\* the catalog's order), so the empty list for an unregistered id. With a
\* preferred authType among them, that authType is the first element; with
\* one that is not among them, or with none, the result is the list in
\* registration order.
C17_FindAuthTypesForModel ==
    lastReturn.op = "registry.findAuthTypesForModel" =>
        /\ CatalogsOfRegistry # {}
        /\ \A catalog \in CatalogsOfRegistry :
              LET registered == Registrations(catalog, lastReturn.modelId)
                  preferred == lastReturn.preferredAuthType
              IN  /\ Range(lastReturn.value) = Range(registered)
                  /\ (preferred = Undefined \/ preferred \notin Range(registered))
                        => lastReturn.value = registered
                  /\ (preferred # Undefined /\ preferred \in Range(registered))
                        => lastReturn.value[1] = preferred

\* A lookup of an identifier registered under openai, then gemini-api-key,
\* that prefers gemini-api-key.
C17_Witness ==
    /\ lastReturn.op = "registry.findAuthTypesForModel"
    /\ lastReturn.modelId = "shared-model"
    /\ lastReturn.preferredAuthType = "gemini-api-key"
    /\ findAuthTypesForModel(modelRegistry, "shared-model", Undefined)
          = << "openai", "gemini-api-key" >>
    /\ lastReturn.value = << "gemini-api-key", "openai" >>

\* C18: getAvailableAuthTypes lists exactly the authTypes that have at least
\* one registered model: an authType is in the list if and only if
\* hasAuthType is true for it, whatever the user catalog (one that gives an
\* authType an empty list included).
C18_AvailableAuthTypesHaveModels ==
    lastReturn.op = "registry.getAvailableAuthTypes" =>
        \A authType \in AuthTypes :
            Includes(lastReturn.value, authType) <=> hasAuthType(modelRegistry, authType)

\* An identifier is in the catalog of an authType: in the built-in list for
\* qwen-oauth, in the user catalog's list for any other.
ListedIn(catalog, authType, modelId) ==
    LET listed == IF authType = "qwen-oauth" THEN QWEN_OAUTH_MODELS
                  ELSE ListedUnder(catalog, authType)
    IN  \E j \in 1..Len(listed) : listed[j].id = modelId

\* C19: for every authType, registered or not, and every identifier,
\* hasModel answers TRUE exactly when getModel returns a definition, which
\* then carries that identifier and that authType; both happen exactly for
\* the identifiers in the authType's catalog, and for the others hasModel
\* answers FALSE and getModel returns nothing. Both always answer.
C19_HasModelIffGetModel ==
    /\ lastReturn.op = "registry.getModel" =>
          /\ CatalogsOfRegistry # {}
          /\ \A catalog \in CatalogsOfRegistry :
                lastReturn.value # NotFound
                    <=> ListedIn(catalog, lastReturn.authType, lastReturn.modelId)
          /\ lastReturn.value # NotFound
                <=> hasModel(modelRegistry, lastReturn.authType, lastReturn.modelId)
          /\ lastReturn.value # NotFound =>
                /\ lastReturn.value.id = lastReturn.modelId
                /\ lastReturn.value.authType = lastReturn.authType
    /\ lastReturn.op = "registry.hasModel" =>
          /\ lastReturn.value \in BOOLEAN
          /\ \A catalog \in CatalogsOfRegistry :
                lastReturn.value
                    <=> ListedIn(catalog, lastReturn.authType, lastReturn.modelId)
          /\ lastReturn.value
                <=> getModel(modelRegistry, lastReturn.authType, lastReturn.modelId) # NotFound

\* getModel finds, under gemini-api-key, an identifier that openai registers
\* too, and does not find it under qwen-oauth.
C19_Witness ==
    /\ lastReturn.op = "registry.getModel"
    /\ lastReturn.authType = "gemini-api-key"
    /\ lastReturn.modelId = "shared-model"
    /\ lastReturn.value # NotFound
    /\ hasModel(modelRegistry, "openai", "shared-model")
    /\ ~hasModel(modelRegistry, "qwen-oauth", "shared-model")
    /\ getModel(modelRegistry, "vertex-ai", "shared-model") = NotFound

\* The configuration a catalog gives for an identifier of an authType: the
\* last one listed (Map.set replaces an earlier one).
ConfigOf(catalog, authType, modelId) ==
    LET listed == IF authType = "qwen-oauth" THEN QWEN_OAUTH_MODELS
                  ELSE ListedUnder(catalog, authType)
        at == { j \in 1..Len(listed) : listed[j].id = modelId }
    IN  listed[CHOOSE j \in at : \A k \in at : k <= j]

\* The generation config a model configuration supplies, empty when it has
\* none.
Supplied(config) ==
    IF "generationConfig" \in DOMAIN config THEN config.generationConfig
    ELSE [f \in {} |-> 0]

\* The fields of the global defaults.
GenerationFields == {"temperature", "top_p", "max_tokens", "timeout", "maxRetries"}

\* C20: the generation config of a resolved model has, for every field the
\* model's configuration supplies, the supplied value, and for every other
\* field the global default (temperature 0.7, top_p 0.9, max_tokens 4096,
\* timeout 60000, maxRetries 3; the first two in tenths); without a generation
\* config of its own the model gets exactly the defaults.
C20_GenerationConfigMergedFieldByField ==
    (lastReturn.op = "registry.getModel" /\ lastReturn.value # NotFound) =>
        \A catalog \in CatalogsOfRegistry :
            LET supplied == Supplied(ConfigOf(catalog, lastReturn.authType, lastReturn.modelId))
                merged == lastReturn.value.generationConfig
            IN  /\ DOMAIN merged = GenerationFields \cup DOMAIN supplied
                /\ \A f \in DOMAIN supplied : merged[f] = supplied[f]
                /\ "temperature" \notin DOMAIN supplied => merged.temperature = 7
                /\ "top_p" \notin DOMAIN supplied => merged.top_p = 9
                /\ "max_tokens" \notin DOMAIN supplied => merged.max_tokens = 4096
                /\ "timeout" \notin DOMAIN supplied => merged.timeout = 60000
                /\ "maxRetries" \notin DOMAIN supplied => merged.maxRetries = 3

\* A resolved model whose configuration supplies a temperature only.
C20_Witness ==
    /\ lastReturn.op = "registry.getModel"
    /\ lastReturn.authType = "openai"
    /\ lastReturn.modelId = "coder-model"
    /\ lastReturn.value # NotFound
    /\ lastReturn.value.generationConfig =
          [temperature |-> 5, top_p |-> 9, max_tokens |-> 4096, timeout |-> 60000,
           maxRetries |-> 3]

\* C21: the base URL of a resolved model is the one its configuration
\* supplies (a non-empty string), otherwise the default registered for its
\* authType, otherwise the empty string; its name is the one supplied (a
\* non-empty string), otherwise its identifier.
C21_BaseUrlAndNameDefaults ==
    (lastReturn.op = "registry.getModel" /\ lastReturn.value # NotFound) =>
        \A catalog \in CatalogsOfRegistry :
            LET config == ConfigOf(catalog, lastReturn.authType, lastReturn.modelId)
            IN  /\ lastReturn.value.baseUrl =
                      IF "baseUrl" \in DOMAIN config /\ config.baseUrl # ""
                      THEN config.baseUrl
                      ELSE IF lastReturn.authType = "qwen-oauth"
                      THEN "https://dashscope.aliyuncs.com/compatible-mode/v1"
                      ELSE IF lastReturn.authType = "openai"
                      THEN "https://api.openai.com/v1"
                      ELSE ""
                /\ lastReturn.value.name =
                      IF "name" \in DOMAIN config /\ config.name # ""
                      THEN config.name
                      ELSE lastReturn.modelId

\* A model under openai keeps its own base URL, while its neighbour without
\* one takes the default of openai and its identifier as name.
C21_Witness ==
    /\ lastReturn.op = "registry.getModel"
    /\ lastReturn.authType = "openai"
    /\ lastReturn.modelId = "deepseek"
    /\ lastReturn.value # NotFound
    /\ lastReturn.value.baseUrl = "https://api.deepseek.com/v1"
    /\ getModel(modelRegistry, "openai", "unnamed") # NotFound
    /\ getModel(modelRegistry, "openai", "unnamed").baseUrl = "https://api.openai.com/v1"
    /\ getModel(modelRegistry, "openai", "unnamed").name = "unnamed"
    /\ getModel(modelRegistry, "gemini-api-key", "unnamed").baseUrl = ""

\* The identifiers a catalog registers for an authType, in the order of
\* their first listing.
RECURSIVE Distinct(_)
Distinct(ids) ==
    IF ids = << >> THEN << >>
    ELSE LET front == Distinct(SubSeq(ids, 1, Len(ids) - 1))
             last == ids[Len(ids)]
         IN  IF last \in Range(front) THEN front ELSE Append(front, last)

IdsOf(catalog, authType) ==
    LET listed == IF authType = "qwen-oauth" THEN QWEN_OAUTH_MODELS
                  ELSE ListedUnder(catalog, authType)
    IN  Distinct([j \in 1..Len(listed) |-> listed[j].id])

\* C22: in every state the manager's hasModel(P, id) and getModel(P, id)
\* answer as the registry does for the authType P they are given, whatever
\* the current selection: TRUE, and a definition, exactly for the ids the
\* catalog registers under P; getAvailableModels answers with the registry's
\* list for the current authType.
C22_PassThroughQueriesAgreeWithRegistry ==
    /\ lastReturn.op = "hasModel" =>
          /\ lastReturn.value = hasModel(modelRegistry, lastReturn.authType, lastReturn.modelId)
          /\ \A catalog \in CatalogsOfRegistry :
                lastReturn.value <=> ListedIn(catalog, lastReturn.authType, lastReturn.modelId)
    /\ lastReturn.op = "getModel" =>
          /\ lastReturn.value = getModel(modelRegistry, lastReturn.authType, lastReturn.modelId)
          /\ \A catalog \in CatalogsOfRegistry :
                lastReturn.value # NotFound
                    <=> ListedIn(catalog, lastReturn.authType, lastReturn.modelId)
          /\ lastReturn.value # NotFound => lastReturn.value.authType = lastReturn.authType
    /\ lastReturn.op = "getAvailableModels" =>
          /\ lastReturn.value = getModelsForAuthType(modelRegistry, currentAuthType)
          /\ \A catalog \in CatalogsOfRegistry :
                [i \in 1..Len(lastReturn.value) |-> lastReturn.value[i].id]
                    = IdsOf(catalog, currentAuthType)
          /\ \A i \in 1..Len(lastReturn.value) :
                lastReturn.value[i].authType = currentAuthType

\* After a switch, a manager of openai is asked about an identifier of
\* another authType that its own authType does not register.
C22_Witness ==
    /\ lastReturn.op = "hasModel"
    /\ lastReturn.authType = "gemini-api-key"
    /\ lastReturn.modelId = "shared-model"
    /\ lastReturn.value = TRUE
    /\ currentAuthType = "openai"
    /\ currentModelId = "gpt-4"
    /\ selectionSource = "user_manual"
    /\ ~hasModel(modelRegistry, "gemini-api-key", currentModelId)

\* Every call of the batch has returned, and there was one.
BatchReturned ==
    /\ Finished("call1")
    /\ \A c \in Calls : Finished(c) \/ calls[c].pc = "idle"

\* C23: once every call of a batch of overlapping switchModel calls has
\* returned, the current identifier is the one held before the first call
\* began or the target of a call that returned successfully.
C23_BatchEndsOnInitialOrSuccessfulTarget ==
    BatchReturned =>
        \/ currentModelId = calls["call1"].call.previousModelId
        \/ \E c \in Calls :
              calls[c].pc = "returned" /\ currentModelId = calls[c].call.modelId

\* The call of the batch that started last.
LastStarted == IF calls["call2"].pc # "idle" THEN "call2" ELSE "call1"

\* C24: when the call that started last has returned successfully, the
\* current identifier is its target, whatever becomes of a call that started
\* before it.
C24_LastSuccessfulSwitchWins ==
    calls[LastStarted].pc = "returned" =>
        currentModelId = calls[LastStarted].call.modelId

\* C25: a manager of qwen-oauth, whatever initial identifier and user
\* catalog it was constructed with, always has a model selected: whenever no
\* switch is executing, after initialization and after any switches made one
\* at a time, with succeeding or failing callbacks, getCurrentModel succeeds.
C25_QwenOAuthManagerAlwaysSelected ==
    (Exists /\ currentAuthType = "qwen-oauth" /\ NoneInFlight) =>
        /\ getCurrentModel.outcome = "ok"
        /\ getCurrentModel.value.model.authType = "qwen-oauth"
        /\ currentModelId \in {"coder-model", "vision-model"}

\* A manager of qwen-oauth, constructed with a catalog that has a list under
\* the qwen-oauth key, after a switch whose callback failed.
C25_Witness ==
    /\ currentAuthType = "qwen-oauth"
    /\ NoneInFlight
    /\ lastReturn.op = "switchModel"
    /\ lastReturn.outcome = "callback_error"
    /\ lastReturn.call.modelId = "vision-model"
    /\ currentModelId = "coder-model"
    /\ \E catalog \in CatalogsOfRegistry : HasUserQwenList(catalog)

\* The registry has no model for the manager's authType.
NoModelForAuthType == Exists /\ ~hasAuthType(modelRegistry, currentAuthType)

\* C26: a manager whose authType has no registered model (no list, or an
\* empty one) never leaves the state of its initialization: every
\* switchModel call, for every identifier, throws not-found without invoking
\* the callback or suspending, nothing of the selection changes, and
\* getCurrentModel throws before and after.
C26_NoModelsNoSwitch ==
    [][ NoModelForAuthType =>
           /\ \A modelId \in SerialSwitchIds : ~Validates(modelId)
           /\ selection' = selection
           /\ calls' = calls
           /\ lastReturn'.op = "switchModel" =>
                 /\ lastReturn'.outcome = "not_found"
                 /\ lastReturn'.call.invocations = << >>
           /\ getCurrentModel.outcome # "ok"
           /\ getCurrentModel'.outcome # "ok"
      ]_vars

\* A manager of an authType that no catalog lists, with a callback, after a
\* switch to an identifier that another authType registers.
C26_Witness ==
    /\ NoModelForAuthType
    /\ currentAuthType = "vertex-ai"
    /\ onModelChange # Undefined
    /\ lastReturn.op = "switchModel"
    /\ lastReturn.outcome = "not_found"
    /\ lastReturn.call.modelId = "coder-model"
    /\ hasModel(modelRegistry, "qwen-oauth", "coder-model")

C28_TimestampNeverDecreases ==
    [][ /\ now' >= now
        /\ selectionTimestamp' >= selectionTimestamp
        /\ selectionTimestamp' <= now'
        /\ lastReturn.op = "constructor" => selectionTimestamp = 0
        /\ IF \/ \E c \in Calls : Starts(c)
              \/ SyncReturn /\ lastReturn'.outcome \in {"ok", "callback_error"}
           THEN selectionTimestamp' = now
           ELSE selectionTimestamp' = selectionTimestamp
        /\ (lastReturn'.op = "switchModel" /\ lastReturn'.outcome = "not_found")
              => selectionTimestamp' = selectionTimestamp
        /\ lastReturn'.op = "getCurrentModel" => selectionTimestamp' = selectionTimestamp
      ]_vars

\* A switch made after the clock advanced has returned: the timestamp is the
\* clock value of its commit, later than the construction.
C28_Witness ==
    /\ lastReturn.op = "switchModel"
    /\ lastReturn.outcome = "ok"
    /\ lastReturn.call.solo
    /\ lastReturn.call.stamp = 1
    /\ selectionTimestamp = 1
    /\ now = 1

\* A catalog lists a model without identifier under the qwen-oauth key.
MalformedUnderQwenKey(catalog) ==
    \E i \in 1..Len(catalog) :
        /\ catalog[i].authType = "qwen-oauth"
        /\ \E j \in 1..Len(catalog[i].models) :
              \/ "id" \notin DOMAIN catalog[i].models[j]
              \/ catalog[i].models[j].id = ""

\* C29: a model without identifier (missing or empty) under the qwen-oauth
\* key of the user catalog does not make the construction fail: that list is
\* skipped whole, unvalidated, so qwen-oauth has its two built-in models, and
\* every other authType of the catalog is registered with its models.
C29_MalformedQwenEntryIsSkipped ==
    (lastReturn.op = "constructor"
        /\ MalformedUnderQwenKey(lastReturn.options.modelProvidersConfig)
        /\ MalformedAuthTypes(lastReturn.options.modelProvidersConfig) = {}) =>
        LET catalog == lastReturn.options.modelProvidersConfig
            keys(authType) == [i \in 1..Len(ModelsOf(modelRegistry, authType)) |->
                                  ModelsOf(modelRegistry, authType)[i].key]
        IN  /\ lastReturn.outcome = "ok"
            /\ Exists
            /\ keys("qwen-oauth") = << "coder-model", "vision-model" >>
            /\ \A authType \in AuthTypes : ~hasModel(modelRegistry, authType, "")
            /\ \A i \in 1..Len(catalog) :
                  catalog[i].authType # "qwen-oauth" =>
                      /\ MapHas(modelRegistry.modelsByAuthType, catalog[i].authType)
                      /\ keys(catalog[i].authType) = IdsOf(catalog, catalog[i].authType)
            /\ getAvailableAuthTypes(modelRegistry) =
                  << "qwen-oauth" >> \o
                  [k \in 1..Len(SelectSeq(catalog, LAMBDA e : e.authType # "qwen-oauth")) |->
                      SelectSeq(catalog, LAMBDA e : e.authType # "qwen-oauth")[k].authType]

\* A registry built from a catalog whose qwen-oauth list has an entry with an
\* empty id and one with no id, followed by a list for openai.
C29_Witness ==
    /\ JustConstructed
    /\ Len(lastReturn.options.modelProvidersConfig) = 2
    /\ lastReturn.options.modelProvidersConfig[1].authType = "qwen-oauth"
    /\ Len(lastReturn.options.modelProvidersConfig[1].models) = 2
    /\ lastReturn.options.modelProvidersConfig[1].models[1].id = ""
    /\ "id" \notin DOMAIN lastReturn.options.modelProvidersConfig[1].models[2]
    /\ hasModel(modelRegistry, "openai", "gpt-4")
    /\ getModel(modelRegistry, "qwen-oauth", "coder-model") # NotFound

\* C30: the reverse index agrees with the catalog of the registry, also
\* when the user catalog lists an identifier twice under an authType: an
\* authType is in findAuthTypesForModel(id) exactly when hasModel answers
\* TRUE for it and id, and getTotalModelCount is the number of pairs of an
\* authType and an identifier for which hasModel answers TRUE.
C30_ReverseIndexAgreesWithCatalog ==
    /\ lastReturn.op = "registry.findAuthTypesForModel" =>
          \A authType \in AuthTypes :
              Includes(lastReturn.value, authType)
                  <=> hasModel(modelRegistry, authType, lastReturn.modelId)
    /\ lastReturn.op = "registry.getTotalModelCount" =>
          /\ lastReturn.value =
                Cardinality({ pair \in AuthTypes \X QueryIds :
                                hasModel(modelRegistry, pair[1], pair[2]) })
          /\ \A catalog \in CatalogsOfRegistry :
                lastReturn.value =
                    Cardinality({ pair \in AuthTypes \X QueryIds :
                                    ListedIn(catalog, pair[1], pair[2]) })

\* The count of a registry whose user catalog lists one identifier twice
\* under openai: three models, four registrations.
C30_Witness ==
    /\ lastReturn.op = "registry.getTotalModelCount"
    /\ lastReturn.value = 3
    /\ findAuthTypesForModel(modelRegistry, "gpt-4-turbo", Undefined) = << "openai", "openai" >>
    /\ hasModel(modelRegistry, "openai", "gpt-4-turbo")

\* C31: a preferred authType only reorders the reverse lookup: for every
\* identifier and preferred authType, findAuthTypesForModel(id, preferred)
\* has the entries of findAuthTypesForModel(id), each as many times, and the
\* entries other than the preferred one in the same relative order.
C31_PreferenceOnlyReorders ==
    lastReturn.op = "registry.findAuthTypesForModel" =>
        LET unordered == findAuthTypesForModel(modelRegistry, lastReturn.modelId, Undefined)
        IN  /\ \A authType \in AuthTypes :
                  Len(SelectSeq(lastReturn.value, LAMBDA at : at = authType))
                      = Len(SelectSeq(unordered, LAMBDA at : at = authType))
            /\ FilterOut(lastReturn.value, lastReturn.preferredAuthType)
                  = FilterOut(unordered, lastReturn.preferredAuthType)

====
